---- MODULE Spec2Model ----
(***************************************************************************)
(* Model of VQE-QSM-HYBRID.py: the main program (mocked Hamiltonian,      *)
(* mocked VQE/QSE/PEM energies, printing) and the circuit renderer        *)
(* MockUCCSDAnsatz.draw with its helper draw_cnot_ladder.                  *)
(*                                                                         *)
(* Coordinates are fixed point, in hundredths of an axis unit (1.0 = 100, *)
(* 0.25 = 25); every coordinate the source computes is a multiple of 0.25 *)
(* and is exact in binary floating point.  Energies are fixed point in    *)
(* units of 1e-7 Hartree, one digit more than the six that are printed.   *)
(***************************************************************************)
EXTENDS Integers, Sequences, FiniteSets, TLC

VARIABLES entry, pc, k, i, num_qubits, repetitionLayers, canvas, figure,
          stdout, shown, exitcode, energies, raisedAt, calls, ref, ladder

vars == <<entry, pc, k, i, num_qubits, repetitionLayers, canvas, figure,
          stdout, shown, exitcode, energies, raisedAt, calls, ref, ladder>>

(* ------------------------------ bounds --------------------------------- *)
MaxQubits == 5
MaxLayers == 3
MaxCalls == 2
MaxOffset == 1

QubitCounts == -1..MaxQubits
LayerCounts == -1..MaxLayers

(* ------------------------- program constants --------------------------- *)
Reps == 3
\* offsets too close: the second layer starts inside the first
layer_start_x_close == <<100, 300, 900, 1350>>
layer_start_x == <<100, 450, 900, 1350>>
x_meas == 1750
MainQubits == 8
exact_energy == -401764660
nuclear_repulsion_energy == 59220550
VQE_OFFSET == 450000
QSE_OFFSET == 20000
PEM_CORRECTION_FACTOR == -19000
Inset == 25

(* ------------------------- drawing elements ---------------------------- *)
Elem(kind, x, y, x2, y2, text, idx, color) ==
    [kind |-> kind, x |-> x, y |-> y, x2 |-> x2, y2 |-> y2,
     text |-> text, idx |-> idx, color |-> color]

LineY(q) == (q + 1) * 100

\* drawing on the current axes instead of a new figure
SubplotsReuse(n) ==
    canvas \o << Elem("title", 0, 0, 2000, (n + 1) * 100,
                      "VQE UCCSD Ansatz Architecture (8 Qubits, 3 Repetitions)", -1, "black") >>

\* lines 49-53: new figure, title, axis limits, axis off
SubplotsElems(n) ==
    << Elem("title", 0, 0, 2000, (n + 1) * 100,
            "VQE UCCSD Ansatz Architecture (8 Qubits, 3 Repetitions)", -1, "black") >>

\* labels numbered from 1
HLineElemsOneBased(q) ==
    << Elem("hline", 50, LineY(q), 1950, LineY(q), "", -1, "black"),
       Elem("qlabel", 0, LineY(q), 0, LineY(q), "q", q + 1, "darkcyan") >>

\* lines 58-61: one horizontal line and its label q_i
HLineElems(q) ==
    << Elem("hline", 50, LineY(q), 1950, LineY(q), "", -1, "black"),
       Elem("qlabel", 0, LineY(q), 0, LineY(q), "q", q, "darkcyan") >>

\* lines 67-71: phase banner and the two region captions
CaptionElems(n) ==
    << Elem("caption", 950, n * 100 + 70, 950, n * 100 + 70, "PHASE 2", -1, "darkgreen"),
       Elem("caption", 200, 50, 200, 50, "VQE STATE PREPARATION", -1, "blue"),
       Elem("caption", 1700, 50, 1700, 50, "QSE MEASUREMENT", -1, "red") >>

\* lines 75-77
XRot(layer) == layer_start_x[layer + 1]
XEnt(layer) == XRot(layer) + 150
XEntOffset(layer) == XEnt(layer) + 100

\* lines 81-83: rotation box (x, y-0.25, width 1.0, height 0.5) and its label
RotElems(layer, q) ==
    << Elem("rotbox", XRot(layer), LineY(q) - 25, XRot(layer) + 100, LineY(q) + 25,
            "", -1, "lightblue"),
       Elem("rotlabel", XRot(layer) + 50, LineY(q), XRot(layer) + 50, LineY(q),
            "RY", layer, "black") >>

\* the segment drawn from marker centre to marker centre
CnotElemsNoInset(x_pos, y_control, y_target, color) ==
    << Elem("vline", x_pos, y_control, x_pos, y_target, "", -1, color),
       Elem("dot", x_pos, y_control, x_pos, y_control, "o", -1, color),
       Elem("cross", x_pos, y_target, x_pos, y_target, "+", -1, color) >>

\* lines 40-44, 92-94, 102-104: vertical segment, control dot, target cross
CnotElems(x_pos, y_control, y_target, color) ==
    << Elem("vline", x_pos, y_control + Inset, x_pos, y_target - Inset, "", -1, color),
       Elem("dot", x_pos, y_control, x_pos, y_control, "o", -1, color),
       Elem("cross", x_pos, y_target, x_pos, y_target, "+", -1, color) >>

\* the measurement block placed in the middle of the canvas
MeasElemsMid(q) ==
    << Elem("measbox", 1000, LineY(q) - 25, 1000 + 150, LineY(q) + 25,
            "//", -1, "lightcoral"),
       Elem("measlabel", 1000 + 75, LineY(q), 1000 + 75, LineY(q),
            "Obs", -1, "black") >>

\* lines 111-112: hatched measurement box (width 1.5, height 0.5) and label
MeasElems(q) ==
    << Elem("measbox", x_meas, LineY(q) - 25, x_meas + 150, LineY(q) + 25,
            "//", -1, "lightcoral"),
       Elem("measlabel", x_meas + 75, LineY(q), x_meas + 75, LineY(q),
            "Obs", -1, "black") >>

\* line 114
SummaryElems ==
    << Elem("summary", 1825, 150, 1825, 150, "QSE -> H_eff", -1, "red") >>

(* --------------------------- number formatting ------------------------- *)
Abs(x) == IF x < 0 THEN -x ELSE x

\* Python's format(x, ".Nf"): round to nearest, ties to even.  x is fixed
\* point with one digit more than is printed; the result has that digit removed.
RoundLastDigit(x) ==
    LET a == Abs(x)
        q == a \div 10
        r == a % 10
        m == IF r > 5 \/ (r = 5 /\ q % 2 = 1) THEN q + 1 ELSE q
    IN  IF x < 0 THEN -m ELSE m

Fmt6(x) == RoundLastDigit(x)

Line(tag, val) == [tag |-> tag, val |-> val]

(* ------------------------- the mocked computation ---------------------- *)
\* lines 126-141: define_molecule_and_hamiltonian
DefineResult ==
    [num_qubits |-> MainQubits, nuclear |-> nuclear_repulsion_energy, exact |-> exact_energy]

DefineOutput ==
    << Line("1. Generating Qubit Hamiltonian", 0),
       Line("Qubits Required", MainQubits),
       Line("Total Electrons", 8),
       Line("Nuclear Repulsion Energy", Fmt6(nuclear_repulsion_energy)),
       Line("Exact Ground State Energy (FCI)", Fmt6(exact_energy)) >>

\* lines 151, 161, 175: the three mocked energies
VqeEnergy(exact) == exact + VQE_OFFSET
QseEnergy(exact) == exact + QSE_OFFSET
FinalEnergy(exact) == QseEnergy(exact) + PEM_CORRECTION_FACTOR

\* lines 152, 162
VqeError(exact) == Abs(VqeEnergy(exact) - exact)
QseError(exact) == Abs(QseEnergy(exact) - exact)

\* line 164, in thousandths of a percent; printed with two decimals (line 168).
\* Both errors are multiples of 1e-5 Ha; the quotient is taken in that unit to
\* stay within 32-bit integers.
Improvement(exact) ==
    (((VqeError(exact) - QseError(exact)) \div 100) * 100000) \div (VqeError(exact) \div 100)

\* lines 147-178: everything run_vqe_qse prints
RunOutput(exact) ==
    << Line("2. VQE Ground State Approximation", 0),
       Line("E_VQE", Fmt6(VqeEnergy(exact))),
       Line("VQE Error vs. FCI", Fmt6(VqeError(exact))),
       Line("3. QSE Refinement", 0),
       Line("E_QSE", Fmt6(QseEnergy(exact))),
       Line("QSE Refined Error vs. FCI", Fmt6(QseError(exact))),
       Line("QSE reduced the energy error by", RoundLastDigit(Improvement(exact))),
       Line("4. PEM Correction", 0),
       Line("E_Final", Fmt6(FinalEnergy(exact))),
       Line("Status: READY", 0) >>

\* lines 198-211
ResultsOutput(e) ==
    << Line("FINAL ARCHITECTURE & VALUES", 0),
       Line("[A] Qubit Hamiltonian Architecture", MainQubits),
       Line("[B] Final Energy Results", 0),
       Line("Exact Energy (FCI Reference)", Fmt6(e.exact)),
       Line("VQE Approximation Energy", Fmt6(e.vqe)),
       Line("QSE Refined Energy (Pre-PEM)", Fmt6(e.qse)),
       Line("FINAL CORRECTED ENERGY", Fmt6(e.final)),
       Line("[C] VQE Ansatz Quantum Circuit", 0) >>

\* line 214
DrawnOutput == << Line("Circuit drawing generated and displayed", 0) >>

\* lines 219-220
ErrorOutput ==
    << Line("An unexpected error occurred during simulation", 0),
       Line("This often happens when external libraries fail", 0) >>

(* ------------------------- control flow of draw ------------------------ *)
At(p, layer, q) == [pc |-> p, k |-> layer, i |-> q]

\* line 108: range(num_qubits)
EnterMeas(n) == IF 0 < n THEN At("meas", 0, 0) ELSE At("summary", 0, 0)

\* lines 87 and 97: range(0, n - 1, 2) and range(1, n - 1, 2)
Pass1Start == 0
Pass2Start == 1
\* the stop of the range one too far
PassStopOffByOne(n) == n
PassStop(n) == n - 1
PassStep == 2

RECURSIVE EnterLayer(_, _)
\* line 97: first index of the second pass, or on to the next layer
EnterEnt2(n, layer) ==
    IF Pass2Start < PassStop(n) THEN At("cnot2", layer, Pass2Start)
    ELSE EnterLayer(n, layer + 1)

\* line 87: first index of the first pass, or on to the second pass
EnterEnt1(n, layer) ==
    IF Pass1Start < PassStop(n) THEN At("cnot1", layer, Pass1Start)
    ELSE EnterEnt2(n, layer)

\* the layer loop stopping one layer early
EnterLayerShort(n, layer) ==
    IF layer < Reps - 1
    THEN IF 0 < n THEN At("rot", layer, 0) ELSE EnterEnt1(n, layer)
    ELSE EnterMeas(n)

\* lines 74 and 80: for k in range(3), then for i in range(num_qubits)
EnterLayer(n, layer) ==
    IF layer < Reps
    THEN IF 0 < n THEN At("rot", layer, 0) ELSE EnterEnt1(n, layer)
    ELSE EnterMeas(n)

\* line 58: range(num_qubits)
EnterHLines(n) == IF 0 < n THEN At("hline", 0, 0) ELSE At("captions", 0, 0)

Goto(t) == pc' = t.pc /\ k' = t.k /\ i' = t.i

DrawPcs == {"subplots", "hline", "captions", "rot", "cnot1", "cnot2", "meas", "summary", "return"}
TryPcs == {"define", "run_vqe_qse", "print_results", "print_drawn", "show"} \cup DrawPcs

(* ------------------------------ initial state -------------------------- *)
NoEnergies == [exact |-> 0, vqe |-> 0, qse |-> 0, final |-> 0]
NoRef == [n |-> -2, layers |-> -1, out |-> << >>]
NoLadder == [start_x |-> 0, num_q |-> 0, offset |-> 0, color |-> "none"]
LadderStartX == {1250}

\* Either the script is run (line 185), or the class is used on its own: an
\* ansatz has been constructed (lines 25-28) with some qubit count.
Init ==
    /\ entry \in {"main", "direct"}
    /\ pc = IF entry = "main" THEN "define" ELSE "constructed"
    /\ num_qubits \in IF entry = "main" THEN {0} ELSE QubitCounts
    /\ repetitionLayers = 0
    /\ k = 0 /\ i = 0
    /\ canvas = << >> /\ figure = FALSE
    /\ stdout = << >> /\ shown = FALSE /\ exitcode = -1
    /\ energies = NoEnergies
    /\ raisedAt = "none"
    /\ calls = 0
    /\ ref = NoRef
    /\ ladder = NoLadder

(* ------------------------------ main program --------------------------- *)
\* line 190
Define ==
    /\ pc = "define"
    /\ stdout' = stdout \o DefineOutput
    /\ energies' = [energies EXCEPT !.exact = DefineResult.exact]
    /\ pc' = "run_vqe_qse"
    /\ UNCHANGED <<entry, k, i, num_qubits, repetitionLayers, canvas, figure,
                   shown, exitcode, raisedAt, calls, ref, ladder>>

\* lines 193-195: run_vqe_qse, which also constructs the ansatz (line 180)
RunVqeQse ==
    /\ pc = "run_vqe_qse"
    /\ stdout' = stdout \o RunOutput(energies.exact)
    /\ energies' = [energies EXCEPT !.vqe = VqeEnergy(energies.exact),
                                    !.qse = QseEnergy(energies.exact),
                                    !.final = FinalEnergy(energies.exact)]
    /\ num_qubits' = DefineResult.num_qubits
    /\ pc' = "print_results"
    /\ UNCHANGED <<entry, k, i, repetitionLayers, canvas, figure,
                   shown, exitcode, raisedAt, calls, ref, ladder>>

\* lines 198-213: the results block, then the call of draw("mpl", ...)
PrintResults ==
    /\ pc = "print_results"
    /\ stdout' = stdout \o ResultsOutput(energies)
    /\ repetitionLayers' = Reps
    /\ calls' = calls + 1
    /\ pc' = "subplots"
    /\ UNCHANGED <<entry, k, i, num_qubits, canvas, figure, shown, exitcode,
                   energies, raisedAt, ref, ladder>>

\* line 214
PrintDrawn ==
    /\ pc = "print_drawn"
    /\ stdout' = stdout \o DrawnOutput
    /\ pc' = "show"
    /\ UNCHANGED <<entry, k, i, num_qubits, repetitionLayers, canvas, figure,
                   shown, exitcode, energies, raisedAt, calls, ref, ladder>>

\* line 215
Show ==
    /\ pc = "show"
    /\ shown' = TRUE
    /\ pc' = "end"
    /\ UNCHANGED <<entry, k, i, num_qubits, repetitionLayers, canvas, figure,
                   stdout, exitcode, energies, raisedAt, calls, ref, ladder>>

\* no try block around the steps
HandlerNoTry(e) == "raised"

\* line 218: where an exception raised at a step is taken.  In the script
\* every step is inside the try block; a direct caller of draw has no handler.
Handler(e) == IF e = "main" THEN "except" ELSE "raised"

\* any statement of the try block, or of draw, raises an Exception
Raise ==
    /\ \/ entry = "main" /\ pc \in TryPcs
       \/ entry = "direct" /\ pc \in DrawPcs
    /\ raisedAt' = pc
    /\ pc' = Handler(entry)
    /\ UNCHANGED <<entry, k, i, num_qubits, repetitionLayers, canvas, figure,
                   stdout, shown, exitcode, energies, calls, ref, ladder>>

\* lines 218-220
Except ==
    /\ pc = "except"
    /\ stdout' = stdout \o ErrorOutput
    /\ pc' = "end"
    /\ UNCHANGED <<entry, k, i, num_qubits, repetitionLayers, canvas, figure,
                   shown, exitcode, energies, raisedAt, calls, ref, ladder>>

\* falling off the end of the script: exit status 0; an exception that
\* reaches the top level ends the interpreter with status 1
Exit ==
    /\ entry = "main"
    /\ pc \in {"end", "raised"}
    /\ exitcode' = IF pc = "end" THEN 0 ELSE 1
    /\ pc' = "exit"
    /\ UNCHANGED <<entry, k, i, num_qubits, repetitionLayers, canvas, figure,
                   stdout, shown, energies, raisedAt, calls, ref, ladder>>

(* ------------------------------ draw ----------------------------------- *)
\* line 47: draw(*args, **kwargs); the arguments are never read.  The layer
\* count the caller asks for travels in them.
CallDraw ==
    /\ entry = "direct"
    /\ pc \in {"constructed", "returned"}
    /\ calls < MaxCalls
    /\ \E layers \in LayerCounts : repetitionLayers' = layers
    /\ calls' = calls + 1
    /\ pc' = "subplots"
    /\ UNCHANGED <<entry, k, i, num_qubits, canvas, figure, stdout, shown,
                   exitcode, energies, raisedAt, ref, ladder>>

\* lines 25-28: another ansatz is constructed
Construct ==
    /\ entry = "direct"
    /\ pc = "returned"
    /\ calls < MaxCalls
    /\ \E n \in QubitCounts : num_qubits' = n
    /\ pc' = "constructed"
    /\ UNCHANGED <<entry, k, i, repetitionLayers, canvas, figure, stdout, shown,
                   exitcode, energies, raisedAt, calls, ref, ladder>>

\* lines 49-53
Subplots ==
    /\ pc = "subplots"
    /\ canvas' = SubplotsElems(num_qubits)
    /\ figure' = FALSE
    /\ Goto(EnterHLines(num_qubits))
    /\ UNCHANGED <<entry, num_qubits, repetitionLayers, stdout, shown, exitcode,
                   energies, raisedAt, calls, ref, ladder>>

\* lines 58-61, one iteration
HLine ==
    /\ pc = "hline"
    /\ canvas' = canvas \o HLineElems(i)
    /\ Goto(IF i + 1 < num_qubits THEN At("hline", 0, i + 1) ELSE At("captions", 0, 0))
    /\ UNCHANGED <<entry, num_qubits, repetitionLayers, figure, stdout, shown,
                   exitcode, energies, raisedAt, calls, ref, ladder>>

\* lines 64-71
Captions ==
    /\ pc = "captions"
    /\ canvas' = canvas \o CaptionElems(num_qubits)
    /\ Goto(EnterLayer(num_qubits, 0))
    /\ UNCHANGED <<entry, num_qubits, repetitionLayers, figure, stdout, shown,
                   exitcode, energies, raisedAt, calls, ref, ladder>>

\* lines 80-83, one iteration
RotBox ==
    /\ pc = "rot"
    /\ canvas' = canvas \o RotElems(k, i)
    /\ Goto(IF i + 1 < num_qubits THEN At("rot", k, i + 1) ELSE EnterEnt1(num_qubits, k))
    /\ UNCHANGED <<entry, num_qubits, repetitionLayers, figure, stdout, shown,
                   exitcode, energies, raisedAt, calls, ref, ladder>>

\* lines 87-94, one iteration
Cnot1 ==
    /\ pc = "cnot1"
    /\ canvas' = canvas \o CnotElems(XEnt(k), LineY(i), LineY(i + 1), "red")
    /\ Goto(IF i + PassStep < PassStop(num_qubits) THEN At("cnot1", k, i + PassStep)
            ELSE EnterEnt2(num_qubits, k))
    /\ UNCHANGED <<entry, num_qubits, repetitionLayers, figure, stdout, shown,
                   exitcode, energies, raisedAt, calls, ref, ladder>>

\* lines 97-104, one iteration
Cnot2 ==
    /\ pc = "cnot2"
    /\ canvas' = canvas \o CnotElems(XEntOffset(k), LineY(i), LineY(i + 1), "orange")
    /\ Goto(IF i + PassStep < PassStop(num_qubits) THEN At("cnot2", k, i + PassStep)
            ELSE EnterLayer(num_qubits, k + 1))
    /\ UNCHANGED <<entry, num_qubits, repetitionLayers, figure, stdout, shown,
                   exitcode, energies, raisedAt, calls, ref, ladder>>

\* lines 108-112, one iteration
MeasBox ==
    /\ pc = "meas"
    /\ canvas' = canvas \o MeasElems(i)
    /\ Goto(IF i + 1 < num_qubits THEN At("meas", 0, i + 1) ELSE At("summary", 0, 0))
    /\ UNCHANGED <<entry, num_qubits, repetitionLayers, figure, stdout, shown,
                   exitcode, energies, raisedAt, calls, ref, ladder>>

\* line 114
Summary ==
    /\ pc = "summary"
    /\ canvas' = canvas \o SummaryElems
    /\ Goto(At("return", 0, 0))
    /\ UNCHANGED <<entry, num_qubits, repetitionLayers, figure, stdout, shown,
                   exitcode, energies, raisedAt, calls, ref, ladder>>

\* line 116: the figure goes back to the caller.  A direct caller may keep
\* one finished drawing to compare later ones with.
Return ==
    /\ pc = "return"
    /\ figure' = TRUE
    /\ pc' = IF entry = "main" THEN "print_drawn" ELSE "returned"
    /\ \/ ref' = ref
       \/ /\ entry = "direct" /\ ref = NoRef
          /\ ref' = [n |-> num_qubits, layers |-> repetitionLayers, out |-> canvas]
    /\ UNCHANGED <<entry, k, i, num_qubits, repetitionLayers, canvas, stdout, shown,
                   exitcode, energies, raisedAt, calls, ladder>>

(* ------------------------------ draw_cnot_ladder ----------------------- *)
\* line 32: the helper is called on the axes of a finished drawing
CallLadder ==
    /\ entry = "direct"
    /\ pc = "returned"
    /\ \E sx \in LadderStartX, nq \in 0..MaxQubits, off \in -1..MaxOffset :
          /\ ladder' = [start_x |-> sx, num_q |-> nq, offset |-> off, color |-> "green"]
          /\ Goto(IF 0 < nq - 1 THEN At("ladder", 0, 0) ELSE At("ladder_done", 0, 0))
    /\ UNCHANGED <<entry, num_qubits, repetitionLayers, canvas, figure, stdout, shown,
                   exitcode, energies, raisedAt, calls, ref>>

\* lines 34-44, one iteration
LadderStep ==
    /\ pc = "ladder"
    /\ canvas' = canvas \o CnotElems(ladder.start_x, LineY(i + ladder.offset),
                                     LineY(i + 1 + ladder.offset), ladder.color)
    /\ Goto(IF i + 1 < ladder.num_q - 1 THEN At("ladder", 0, i + 1)
            ELSE At("ladder_done", 0, 0))
    /\ UNCHANGED <<entry, num_qubits, repetitionLayers, figure, stdout, shown,
                   exitcode, energies, raisedAt, calls, ref, ladder>>

Next ==
    \/ Define \/ RunVqeQse \/ PrintResults \/ PrintDrawn \/ Show
    \/ Raise \/ Except \/ Exit
    \/ CallDraw \/ Construct
    \/ Subplots \/ HLine \/ Captions \/ RotBox \/ Cnot1 \/ Cnot2
    \/ MeasBox \/ Summary \/ Return
    \/ CallLadder \/ LadderStep

Spec == Init /\ [][Next]_vars

(* ===================== properties of the renderer ====================== *)
Sel(kind) == {j \in DOMAIN canvas : canvas[j].kind = kind}
SelC(kind, color) == {j \in Sel(kind) : canvas[j].color = color}
Lines == 0..(num_qubits - 1)
\* draw has made every drawing call of one render and is about to return
Rendered == pc = "return"
\* element j is centred on the horizontal line of qubit q
BoxOnLine(j, q) == canvas[j].y = LineY(q) - 25 /\ canvas[j].y2 = LineY(q) + 25
\* the elements a later draw_cnot_ladder call added after the render's last element
IsLadder(j) == \E s \in 1..(j - 1) : canvas[s].kind = "summary"
\* the qubit index whose line passes at height y; -99 when there is none
LineAt(y) == IF y % 100 = 0 THEN y \div 100 - 1 ELSE -99
\* qubit pairs <<a, b>> joined by the connectors of one colour at abscissa x:
\* the segment starts 0.25 above line a and ends 0.25 below line b
ConnPairs(color, x) ==
    {<<LineAt(canvas[j].y - 25), LineAt(canvas[j].y2 + 25)>> :
        j \in {v \in SelC("vline", color) : canvas[v].x = x}}
ConnXs(color) == {canvas[j].x : j \in SelC("vline", color)}
ExpectedPairs(parity) == {<<a, a + 1>> : a \in {b \in Lines : b % 2 = parity /\ b + 1 <= num_qubits - 1}}

\* C1: for qubitCount >= 1 one render draws exactly qubitCount horizontal
\* lines at pairwise distinct heights and exactly qubitCount index labels,
\* the label with index q sitting at the height of one line, for q in 0..qubitCount-1.
C1_LinesAndLabels ==
    (Rendered /\ num_qubits >= 1) =>
        /\ Cardinality(Sel("hline")) = num_qubits
        /\ Cardinality(Sel("qlabel")) = num_qubits
        /\ \A a, b \in Sel("hline") : a # b => canvas[a].y # canvas[b].y
        /\ \A q \in Lines :
              /\ Cardinality({j \in Sel("qlabel") : canvas[j].idx = q}) = 1
              /\ \A j \in Sel("qlabel") : canvas[j].idx = q =>
                    /\ canvas[j].y = LineY(q)
                    /\ Cardinality({h \in Sel("hline") : canvas[h].y = canvas[j].y}) = 1

C1_Witness ==
    Rendered /\ num_qubits = MaxQubits /\ Cardinality(Sel("hline")) = MaxQubits

\* rotation boxes of one render: one per line and layer in 0..layers-1, labelled
RotBoxesFor(layers) ==
    /\ Cardinality(Sel("rotbox")) = num_qubits * layers
    /\ Cardinality(Sel("rotlabel")) = num_qubits * layers
    /\ \A q \in Lines, layer \in 0..(layers - 1) :
          Cardinality({j \in Sel("rotbox") :
              /\ BoxOnLine(j, q)
              /\ \E t \in Sel("rotlabel") :
                    /\ canvas[t].idx = layer
                    /\ canvas[t].x = canvas[j].x + 50 /\ canvas[t].y = LineY(q)}) = 1

C3_EntanglementPairs ==
    (Rendered /\ num_qubits >= 1) =>
        /\ \A x \in ConnXs("red") : ConnPairs("red", x) = ExpectedPairs(0)
        /\ \A x \in ConnXs("orange") : ConnPairs("orange", x) = ExpectedPairs(1)
        /\ Cardinality(ConnXs("red")) = (IF ExpectedPairs(0) = {} THEN 0 ELSE 3)
        /\ Cardinality(ConnXs("orange")) = (IF ExpectedPairs(1) = {} THEN 0 ELSE 3)
        /\ Cardinality(SelC("vline", "red")) = 3 * Cardinality(ExpectedPairs(0))
        /\ Cardinality(SelC("vline", "orange")) = 3 * Cardinality(ExpectedPairs(1))
        /\ Cardinality(Sel("dot")) = Cardinality(Sel("vline"))
        /\ Cardinality(Sel("cross")) = Cardinality(Sel("vline"))
        /\ \A j \in Sel("vline") :
              /\ canvas[j].color \in {"red", "orange"}
              /\ \E d \in Sel("dot") : canvas[d].x = canvas[j].x /\ canvas[d].y = canvas[j].y - 25
                                       /\ canvas[d].color = canvas[j].color
              /\ \E c \in Sel("cross") : canvas[c].x = canvas[j].x /\ canvas[c].y = canvas[j].y2 + 25
                                         /\ canvas[c].color = canvas[j].color
        /\ \A j \in Sel("dot") \cup Sel("cross") : \E q \in Lines : canvas[j].y = LineY(q)
        /\ num_qubits = 1 => (Sel("vline") = {} /\ Sel("dot") = {} /\ Sel("cross") = {})

C3_Witness ==
    Rendered /\ num_qubits = 5 /\ Cardinality(SelC("vline", "red")) = 6
             /\ Cardinality(SelC("vline", "orange")) = 6

\* C4: for qubitCount >= 1 one render draws exactly qubitCount measurement
\* boxes, one on every line, each to the right of every rotation box and every
\* connector, plus exactly one summary label; with 8 qubits the totals are 8
\* lines, 24 rotation boxes, 12 pass-1 and 9 pass-2 connectors, 8 measurement boxes.
C4_MeasurementBlock ==
    (Rendered /\ num_qubits >= 1) =>
        /\ Cardinality(Sel("measbox")) = num_qubits
        /\ \A q \in Lines : Cardinality({j \in Sel("measbox") : BoxOnLine(j, q)}) = 1
        /\ \A m \in Sel("measbox") :
              /\ \A r \in Sel("rotbox") : canvas[r].x2 < canvas[m].x
              /\ \A c \in Sel("vline") \cup Sel("dot") \cup Sel("cross") : canvas[c].x < canvas[m].x
              /\ canvas[m].text = "//"
        /\ Cardinality(Sel("measlabel")) = num_qubits
        /\ Cardinality(Sel("summary")) = 1
        /\ num_qubits = 8 =>
              /\ Cardinality(Sel("hline")) = 8
              /\ Cardinality(Sel("rotbox")) = 24
              /\ Cardinality(SelC("vline", "red")) = 12
              /\ Cardinality(SelC("vline", "orange")) = 9
              /\ Cardinality(Sel("measbox")) = 8

C4_Witness ==
    Rendered /\ num_qubits = 8 /\ Cardinality(Sel("measbox")) = 8
             /\ Cardinality(Sel("rotbox")) = 24

\* C5 (as stated): called with qubitCount < 1, or a negative repetition count,
\* the renderer makes no drawing call and returns no figure.
C5_NoPartialDrawing ==
    (entry = "direct" /\ pc \in (DrawPcs \cup {"returned", "raised"}) \ {"subplots"}
        /\ (num_qubits < 1 \/ repetitionLayers < 0))
    => (canvas = << >> /\ figure = FALSE /\ pc = "raised")

\* C6: two renders with the same input (qubit count and layer count), however
\* many calls came before, emit the same sequence of drawing elements.
C6_Deterministic ==
    (Rendered /\ ref # NoRef /\ ref.n = num_qubits /\ ref.layers = repetitionLayers)
    => canvas = ref.out

C6_Witness ==
    Rendered /\ calls = 2 /\ ref # NoRef /\ ref.n = num_qubits
             /\ ref.layers = repetitionLayers /\ num_qubits = 3 /\ Len(canvas) > 20

\* the layers that are drawn, read off the rotation labels, and where each starts
DrawnLayers == {canvas[t].idx : t \in Sel("rotlabel")}
LayerLeft(layer) == {canvas[t].x - 50 : t \in {u \in Sel("rotlabel") : canvas[u].idx = layer}}

\* C7: every layer that is drawn has one precomputed offset x_rot; its rotation
\* boxes start there and its connectors stand at x_rot+1.5 and x_rot+2.5; for
\* two drawn layers j < k the extent [x_rot, x_rot+2.5] of j lies strictly left
\* of that of k.
C7_LayersOrdered ==
    /\ pc \in {"rot", "cnot1", "cnot2"} => (k + 1) \in DOMAIN layer_start_x
    /\ Rendered =>
          /\ \A layer \in DrawnLayers : Cardinality(LayerLeft(layer)) = 1
          /\ \A r \in Sel("rotbox") : \E layer \in DrawnLayers : canvas[r].x \in LayerLeft(layer)
          /\ \A v \in SelC("vline", "red") :
                \E layer \in DrawnLayers : (canvas[v].x - 150) \in LayerLeft(layer)
          /\ \A v \in SelC("vline", "orange") :
                \E layer \in DrawnLayers : (canvas[v].x - 250) \in LayerLeft(layer)
          /\ \A a, b \in DrawnLayers : a < b =>
                \A xa \in LayerLeft(a), xb \in LayerLeft(b) : xa + 250 < xb

C7_Witness ==
    Rendered /\ num_qubits = 4 /\ DrawnLayers = {0, 1, 2}
             /\ Cardinality(SelC("vline", "orange")) = 3

\* position of a step in the sequence of the main program
Rank(p) ==
    CASE p = "define" -> 1
      [] p = "run_vqe_qse" -> 2
      [] p = "print_results" -> 3
      [] p \in DrawPcs -> 4
      [] p = "print_drawn" -> 5
      [] p = "show" -> 6
      [] OTHER -> 7
\* what the steps before the one of rank r print
PrintedBefore(r) ==
    (IF r > 1 THEN DefineOutput ELSE << >>)
    \o (IF r > 2 THEN RunOutput(exact_energy) ELSE << >>)
    \o (IF r > 3 THEN ResultsOutput([exact |-> exact_energy, vqe |-> exact_energy + 450000,
                                     qse |-> exact_energy + 20000, final |-> exact_energy + 1000])
        ELSE << >>)
    \o (IF r > 5 THEN DrawnOutput ELSE << >>)

\* C8: in the main program an exception raised at any step is caught: the
\* error message is printed right after the output of the steps before it, no
\* later step runs (nothing more is printed, no figure is returned or shown
\* past the failing step), and the exit code is 0 as for a successful run.
C8_CatchAll ==
    (entry = "main" /\ pc = "exit") =>
        /\ exitcode = 0
        /\ raisedAt # "none" =>
              /\ stdout = PrintedBefore(Rank(raisedAt)) \o ErrorOutput
              /\ shown = FALSE
              /\ figure = (Rank(raisedAt) > 4)
        /\ raisedAt = "none" =>
              /\ stdout = PrintedBefore(7)
              /\ shown = TRUE /\ figure = TRUE

C8_Witness ==
    entry = "main" /\ pc = "exit" /\ raisedAt = "cnot2" /\ exitcode = 0
                   /\ Len(canvas) > 0 /\ figure = FALSE

\* every connector: segment inset by 0.25 from both markers, non-empty,
\* markers one line pitch apart at both ends of the segment
Marker(kind, x, y) ==
    \E m \in DOMAIN canvas : canvas[m].kind = kind /\ canvas[m].x = x /\ canvas[m].y = y
InsetOk(j) ==
    /\ canvas[j].y < canvas[j].y2
    /\ canvas[j].x2 = canvas[j].x
    /\ Marker("dot", canvas[j].x, canvas[j].y - 25)
    /\ Marker("cross", canvas[j].x, canvas[j].y2 + 25)
    /\ (canvas[j].y2 + 25) - (canvas[j].y - 25) = 100
\* both markers of connector j sit on horizontal lines that are drawn
OnLines(j) ==
    /\ \E h \in DOMAIN canvas : canvas[h].kind = "hline" /\ canvas[h].y = canvas[j].y - 25
    /\ \E h \in DOMAIN canvas : canvas[h].kind = "hline" /\ canvas[h].y = canvas[j].y2 + 25

\* C9 (as stated): every connector drawn, by either pass or by
\* draw_cnot_ladder, is inset by 0.25 from both marker centres and its markers
\* sit on two adjacent qubit lines.
C9_AsStated ==
    \A j \in Sel("vline") : InsetOk(j) /\ OnLines(j)

\* C9 (amended): every connector drawn is inset by 0.25 from both marker
\* centres, a non-empty segment strictly between two markers one line pitch
\* apart; the markers of the two passes of draw sit on two adjacent qubit
\* lines, those of draw_cnot_ladder do when 0 <= offset and
\* num_q + offset <= qubitCount.
C9_InsetConnectors ==
    \A j \in Sel("vline") :
        /\ InsetOk(j)
        /\ (~IsLadder(j) \/ (0 <= ladder.offset /\ ladder.num_q + ladder.offset <= num_qubits))
              => OnLines(j)

C9_Witness ==
    pc = "ladder_done" /\ ladder.num_q = 3 /\ ladder.offset = 1 /\ num_qubits = 4
        /\ Cardinality({j \in Sel("vline") : IsLadder(j)}) = 2

Printed(tag) == {stdout[j].val : j \in {l \in DOMAIN stdout : stdout[l].tag = tag}}

\* C10 (as stated): the final corrected energy that run_vqe_qse prints equals
\* the exact energy that is printed, and VQE error > QSE error > final error >= 0.
C10_HitsTarget ==
    Printed("E_Final") # {} =>
        /\ Printed("E_Final") = Printed("Exact Ground State Energy (FCI)")
        /\ VqeError(energies.exact) > QseError(energies.exact)
        /\ QseError(energies.exact) > Abs(energies.final - energies.exact)
        /\ Abs(energies.final - energies.exact) >= 0

====
